---- MODULE Spec2Model ----
(***************************************************************************)
(* The socket servers of rpi10/webchatapp as one state machine.            *)
(*                                                                         *)
(* The repository holds five variants of the same server:                  *)
(*   "index"  src/index.js                                                 *)
(*   "p0"     src/unnamed/part_000                                         *)
(*   "p1a"    src/unnamed/part_001, lines   1-220 (set username + socket_id)*)
(*   "p1b"    src/unnamed/part_001, lines 222-479 (login + signup)         *)
(*   "p1c"    src/unnamed/part_001, lines 481-628 (set username, no store  *)
(*            of credentials)                                              *)
(* A behaviour runs one of them (variant is chosen in Init and never       *)
(* changes).  Node runs one handler or callback at a time, so each action  *)
(* is the code between two suspension points.  A store call (pool.query)   *)
(* is an operation record in the bag pending: it is "sent" by the code,    *)
(* executed by the store (Exec: its effect on the tables, or a failure),   *)
(* and then its continuation runs (Callback).  The pool holds several      *)
(* connections, so calls execute and complete in any order.                *)
(* bcrypt.hash and bcrypt.compare suspend too, but touch no shared state:  *)
(* their continuation is folded into the step before it.                   *)
(***************************************************************************)
EXTENDS Bags, FiniteSets, Integers, Sequences, TLC

\* ----------------------------------------------------------------- bounds
\* what one behaviour may spend: a client event costs 1, a client event that
\* arrives while a store call is in flight costs 2, a store call that fails costs 1
Budget == 4
\* store calls in flight when one more client event may still arrive
MaxInFlight == 2
\* rows of table messages
MaxMsgs == 2

Variants == {"index", "p0", "p1a", "p1b", "p1c"}
Conns == {"c1", "c2"}
Names == {"alice", "bob"}
Passwords == {"p1", "p2"}
\* the passwords that signup and setup password choose
NewPasswords == {"p2"}
Bodies == {"hi", "yo"}

\* socket.username before any assignment; also the absent peer of load messages
NoUser == "undefined"
\* SQL NULL in a text column
Null == "null"

\* ------------------------------------------------------------ pure helpers
\* bcrypt.hash(password, 10): one-way, so a hash is never the password itself
Hash(p) == "bcrypt$" \o p

CompareAlwaysTrue(p, h) == TRUE
\* bcrypt.compare(password, user.password)
Compare(p, h) == Hash(p) = h

\* a row of table users that does not exist
AbsentRow == [present |-> FALSE, password |-> Null, online |-> FALSE, socket_id |-> Null]
\* users[username] === undefined
Undefined == [defined |-> FALSE, socketId |-> Null, online |-> FALSE]
EntryOfFirstSocket(c) == [defined |-> TRUE, socketId |-> "c1", online |-> TRUE]
\* { socketId: socket.id, online: true }
Entry(c) == [defined |-> TRUE, socketId |-> c, online |-> TRUE]

\* a store call as issued; the fields a call does not use keep these values
Op(c, pc) ==
    [c |-> c, pc |-> pc, u |-> NoUser, x |-> "", from |-> NoUser, prior |-> NoUser,
     st |-> "sent", res |-> "", pw |-> Null, sid |-> Null, rows |-> <<>>, list |-> {}]

\* an emitted socket event; the fields an event does not carry keep these values
Ev(to, ev, arg) ==
    [to |-> to, ev |-> ev, arg |-> arg, from |-> NoUser, peer |-> NoUser, msg |-> "",
     messages |-> <<>>, list |-> {}]

\* io.emit reaches every connected socket
All == "*"

VARIABLES
    variant,     \* which server runs
    session,     \* whether socket.request.session is an object, by connection:
                 \* "yes", "no", or "unread" until the code first reads it
    dbUsers,     \* table users, by username
    messages,    \* table messages, in insertion order
    users,       \* const users = {}
    username,    \* socket.username, by connection
    connected,   \* whether the socket is still connected
    pending,     \* store calls in flight (a bag)
    out,         \* the events emitted by the last step, in order
    crashed,     \* an exception left a handler or callback uncaught
    grounds,     \* history: <<c, u>> once c presented a ground to act as u
    spent        \* what the behaviour has spent of Budget

vars == <<variant, session, dbUsers, messages, users, username, connected,
          pending, out, crashed, grounds, spent>>

\* ------------------------------------------------------------------- Init
\* the table users a server may start on: alice has a password; bob is
\* absent, claimed without a password (where the column is nullable), or has one
InitRows(v) ==
    IF v = "p1c" THEN {[n \in Names |-> AbsentRow]}
    ELSE {[n \in Names |->
             IF n = "alice"
             THEN [AbsentRow EXCEPT !.present = TRUE, !.password = Hash("p1")]
             ELSE b] :
          b \in {AbsentRow,
                 [AbsentRow EXCEPT !.present = TRUE, !.password = Hash("p2")]}
                \cup (IF v = "p1a" THEN {} ELSE {[AbsentRow EXCEPT !.present = TRUE]})}

Init ==
    /\ variant \in Variants
    /\ session = [c \in Conns |-> "unread"]
    /\ dbUsers \in InitRows(variant)
    /\ messages = <<>>
    /\ users = [n \in Names |-> Undefined]
    /\ username = [c \in Conns |-> NoUser]
    /\ connected = [c \in Conns |-> TRUE]
    /\ pending = EmptyBag
    /\ out = <<>>
    /\ crashed = FALSE
    /\ grounds = {}
    /\ spent = 0

\* ---------------------------------------------------------------- plumbing
Issue(ops) == pending (+) ops
One(op) == SetToBag({op})
InFlight == BagCardinality(pending)

\* what the next client event costs
Cost == IF InFlight = 0 THEN 1 ELSE 2

\* a client event can arrive on a connected socket of a running server
\* (the sockets are numbered in the order of their first event)
CanReceive(c) ==
    /\ ~crashed
    /\ connected[c]
    /\ c = "c2" => spent > 0
    /\ InFlight < MaxInFlight
    /\ spent + Cost <= Budget

Received == spent' = spent + Cost

\* rows of table messages, and INSERTs into it that are in flight
Stored == Len(messages)
Saving == BagCardinality([op \in {o \in DOMAIN pending : o.pc \in {"save", "chat:insert"} /\ o.st = "sent"}
                            |-> pending[op]])

\* the variants whose handlers are 'login' (and not 'set username')
LoginVariants == {"index", "p0", "p1b"}

\* --------------------------------------------------------- shared functions
\* loadPrivateMessageHistory(user1, user2, callback), up to its pool.query
HistoryOp(c, user1, user2) == [Op(c, "history") EXCEPT !.from = user1, !.u = user2]

\* updateUsersList(), up to its pool.query
RosterOp == Op(All, "roster")

\* saveMessage(sender, receiver, message), up to its pool.query
SaveOp(c, pc, sender, receiver, message) ==
    [Op(c, pc) EXCEPT !.from = sender, !.u = receiver, !.x = message]

\* Object.keys(users).map(user => ({username: user, online: users[user].online}))
RosterFromMap(m) == {[username |-> n, online |-> m[n].online] : n \in {k \in Names : m[k].defined}}

\* the name of the event that tells the receiver of a new message
NotificationName == IF variant = "p0" THEN "notification" ELSE "new message notification"

DeliverAlways(from, notifFrom, c, to, msg) ==
    LET message == [Ev(c, "chat message", "") EXCEPT !.from = from, !.peer = to, !.msg = msg]
    IN  <<[message EXCEPT !.to = users[to].socketId],
          [Ev(users[to].socketId, NotificationName, "") EXCEPT !.from = notifFrom, !.msg = msg]>>
\* if (users[to] && users[to].online) { io.to(users[to].socketId).emit(...) x 2 }
Deliver(from, notifFrom, c, to, msg) ==
    LET message == [Ev(c, "chat message", "") EXCEPT !.from = from, !.peer = to, !.msg = msg]
    IN  IF users[to].defined /\ users[to].online
        THEN <<[message EXCEPT !.to = users[to].socketId],
               [Ev(users[to].socketId, NotificationName, "") EXCEPT !.from = notifFrom, !.msg = msg]>>
        ELSE <<>>

\* socket.emit('chat message', message)
Echo(from, c, to, msg) ==
    <<[Ev(c, "chat message", "") EXCEPT !.from = from, !.peer = to, !.msg = msg]>>

ChatEmitsEchoFirst(from, notifFrom, c, to, msg) ==
    Echo(from, c, to, msg) \o Deliver(from, notifFrom, c, to, msg)
\* the tail of the 'chat message' handler: the delivery, then the echo
ChatEmits(from, notifFrom, c, to, msg) ==
    Deliver(from, notifFrom, c, to, msg) \o Echo(from, c, to, msg)

\* if (!socket.username) return;  (the variants that have the line)
ChatGuard(v, name) == v \in {"p1a", "p1c"} \/ name # NoUser

MarkOfflineToggle(m, name) == [m EXCEPT ![name].online = ~m[name].online]
\* users[socket.username].online = false
MarkOffline(m, name) == [m EXCEPT ![name].online = FALSE]

\* ------------------------------------------------------------ client events
\* socket.on('login', async ({ username, password }) => ... up to the SELECT
Login(c, u, p) ==
    /\ variant \in LoginVariants
    /\ CanReceive(c)
    /\ pending' = Issue(One([Op(c, "login:select") EXCEPT !.u = u, !.x = p, !.prior = username[c]]))
    /\ out' = <<>>
    /\ Received
    /\ UNCHANGED <<variant, session, dbUsers, messages, users, username, connected,
                   crashed, grounds>>

\* socket.on('setup password', ...): the hash, up to the UPDATE
SetupPassword(c, u, p) ==
    /\ variant \in {"index", "p0"}
    /\ CanReceive(c)
    /\ pending' = Issue(One([Op(c, "setup:update") EXCEPT !.u = u, !.x = Hash(p), !.prior = username[c]]))
    /\ out' = <<>>
    /\ Received
    /\ UNCHANGED <<variant, session, dbUsers, messages, users, username, connected,
                   crashed, grounds>>

\* socket.on('signup', ...): p0 hashes and INSERTs; p1b SELECTs first
Signup(c, u, p) ==
    /\ variant \in {"p0", "p1b"}
    /\ CanReceive(c)
    /\ pending' = Issue(One(
           IF variant = "p0"
           THEN [Op(c, "signup:insert") EXCEPT !.u = u, !.x = Hash(p), !.prior = username[c]]
           ELSE [Op(c, "signup:select") EXCEPT !.u = u, !.x = p, !.prior = username[c]]))
    /\ out' = <<>>
    /\ Received
    /\ UNCHANGED <<variant, session, dbUsers, messages, users, username, connected,
                   crashed, grounds>>

\* socket.on('set username', ...): p1a SELECTs the user; p1c registers at once
SetUsername(c, u, p) ==
    /\ variant \in {"p1a", "p1c"}
    /\ CanReceive(c)
    /\ Received
    /\ IF variant = "p1a"
       THEN /\ pending' = Issue(One([Op(c, "setuser:select") EXCEPT !.u = u, !.x = p, !.prior = username[c]]))
            /\ out' = <<>>
            /\ UNCHANGED <<users, username>>
       ELSE /\ p = "p1"
            /\ users' = [users EXCEPT ![u] = Entry(c)]
            /\ username' = [username EXCEPT ![c] = u]
            /\ out' = <<[Ev(All, "users list", "") EXCEPT !.list = RosterFromMap(users')]>>
            /\ pending' = Issue(One(HistoryOp(c, u, NoUser)))
    /\ UNCHANGED <<variant, session, dbUsers, messages, connected, crashed, grounds>>

\* socket.on('chat message', ({ to, msg }) => ...
ChatMessage(c, to, msg) ==
    /\ CanReceive(c)
    /\ Stored + Saving < MaxMsgs
    \* (the bodies are numbered in the order of their first use)
    /\ msg = "yo" => Stored + Saving > 0
    /\ Received
    /\ IF ~ChatGuard(variant, username[c])
       THEN /\ out' = <<>>
            /\ UNCHANGED pending
       ELSE IF variant = "p1a"
       THEN \* await saveMessage(...): the rest runs in the callback
            /\ pending' = Issue(One(SaveOp(c, "chat:insert", username[c], to, msg)))
            /\ out' = <<>>
       ELSE /\ pending' = Issue(One(SaveOp(c, "save", username[c], to, msg)))
            /\ out' = ChatEmits(username[c], username[c], c, to, msg)
    /\ UNCHANGED <<variant, session, dbUsers, messages, users, username, connected,
                   crashed, grounds>>

\* socket.on('load messages', ({ user }) => ...
LoadMessages(c, user) ==
    /\ CanReceive(c)
    /\ Received
    /\ IF variant \in {"p1a", "p1c"}
       THEN /\ pending' = Issue(One(HistoryOp(c, username[c], user)))
            /\ out' = <<>>
       ELSE IF username[c] = NoUser
       THEN /\ out' = <<>>
            /\ UNCHANGED pending
       ELSE IF variant = "p0" /\ user = NoUser
       THEN /\ out' = <<Ev(c, "chat history", "")>>
            /\ UNCHANGED pending
       ELSE /\ pending' = Issue(One(HistoryOp(c, username[c], user)))
            /\ out' = <<>>
    /\ UNCHANGED <<variant, session, dbUsers, messages, users, username, connected,
                   crashed, grounds>>

\* socket.on('disconnect', ...): the transport closed the socket
Disconnect(c) ==
    /\ CanReceive(c)
    /\ Received
    /\ connected' = [connected EXCEPT ![c] = FALSE]
    /\ IF username[c] = NoUser
       THEN /\ out' = <<>>
            /\ UNCHANGED <<pending, users>>
       ELSE IF variant = "p1c"
       THEN /\ users' = MarkOffline(users, username[c])
            /\ out' = <<[Ev(All, "users list", "") EXCEPT !.list = RosterFromMap(users')]>>
            /\ UNCHANGED pending
       ELSE /\ pending' = Issue(One([Op(c, "disc:update") EXCEPT !.u = username[c]]))
            /\ out' = <<>>
            /\ UNCHANGED users
    /\ UNCHANGED <<variant, session, dbUsers, messages, username, crashed, grounds>>

\* ------------------------------------------------------------ the store
SelectUserNone(op) == [op EXCEPT !.st = "done", !.res = "none"]
\* SELECT * FROM users WHERE username = $1
SelectUser(op) ==
    IF dbUsers[op.u].present
    THEN [op EXCEPT !.st = "done", !.res = "row", !.pw = dbUsers[op.u].password,
                    !.sid = dbUsers[op.u].socket_id]
    ELSE [op EXCEPT !.st = "done", !.res = "none"]

\* UPDATE users SET online = <flag> WHERE username = $1
SetOnline(u, flag) ==
    IF dbUsers[u].present THEN [dbUsers EXCEPT ![u].online = flag] ELSE dbUsers

\* UPDATE users SET password = $1 WHERE username = $2
SetPassword(u, h) ==
    IF dbUsers[u].present THEN [dbUsers EXCEPT ![u].password = h] ELSE dbUsers

\* INSERT INTO users (username, password, online) VALUES ($1, $2, TRUE)
InsertUser(u, h) ==
    [dbUsers EXCEPT ![u] = [present |-> TRUE, password |-> h, online |-> TRUE, socket_id |-> Null]]

\* UPDATE users SET online = TRUE, socket_id = $1 WHERE username = $2
SetSocket(u, c) ==
    IF dbUsers[u].present THEN [dbUsers EXCEPT ![u].online = TRUE, ![u].socket_id = c] ELSE dbUsers

\* UPDATE users SET online = FALSE, socket_id = NULL WHERE username = $1
ClearSocket(u) ==
    IF dbUsers[u].present THEN [dbUsers EXCEPT ![u].online = FALSE, ![u].socket_id = Null] ELSE dbUsers

\* socket_id TEXT UNIQUE: another row already holds the value
SocketTaken(u, c) == dbUsers[u].present /\ \E n \in Names \ {u} : dbUsers[n].socket_id = c

\* timestamp TIMESTAMPTZ DEFAULT CURRENT_TIMESTAMP: the clock has moved on or not
Stamps == IF messages = <<>> THEN {1}
          ELSE {messages[Len(messages)].timestamp, messages[Len(messages)].timestamp + 1}

\* INSERT INTO messages (sender, receiver, message) VALUES ($1, $2, $3)
InsertMessage(sender, receiver, message, ts) ==
    Append(messages, [sender |-> sender, receiver |-> receiver, message |-> message,
                      timestamp |-> ts])

HistoryWhereOneWay(row, u1, u2) ==
    IF u2 # NoUser
    THEN row.sender = u2 /\ row.receiver = u1
    ELSE row.sender = u1 \/ row.receiver = u1
\* WHERE (sender = $1 AND receiver = $2) OR (sender = $2 AND receiver = $1), or
\* WHERE sender = $1 OR receiver = $1; a NULL parameter or column equals nothing
HistoryWhere(row, u1, u2) ==
    IF u2 # NoUser
    THEN \/ row.sender = u1 /\ row.receiver = u2 /\ u1 # NoUser
         \/ row.sender = u2 /\ row.receiver = u1 /\ u1 # NoUser
    ELSE u1 # NoUser /\ (row.sender = u1 \/ row.receiver = u1)

OrderingsUnsorted(S) ==
    {s \in [1..Cardinality(S) -> S] :
        \A i, j \in 1..Cardinality(S) : i # j => s[i] # s[j]}
\* ORDER BY timestamp ASC: every order of the matching rows that ascends, ties in any order
Orderings(S) ==
    {s \in [1..Cardinality(S) -> S] :
        /\ \A i, j \in 1..Cardinality(S) : i # j => s[i] # s[j]
        /\ \A i, j \in 1..Cardinality(S) : i < j => messages[s[i]].timestamp <= messages[s[j]].timestamp}

\* SELECT username, online FROM users
SelectRoster == {[username |-> n, online |-> dbUsers[n].online] : n \in {k \in Names : dbUsers[k].present}}

Swap(op, new) == (pending (-) One(op)) (+) One(new)
Done(op) == [op EXCEPT !.st = "done", !.res = "ok"]
FailedAsDone(op) == [op EXCEPT !.st = "done", !.res = "ok"]
Failed(op) == [op EXCEPT !.st = "done", !.res = "err"]
InPending(op) == op \in DOMAIN pending

\* the store fails a call: connection lost, query error
ExecFail(op) ==
    /\ ~crashed
    /\ InPending(op) /\ op.st = "sent"
    /\ spent < Budget
    /\ spent' = spent + 1
    /\ pending' = Swap(op, Failed(op))
    /\ out' = <<>>
    /\ UNCHANGED <<variant, session, dbUsers, messages, users, username, connected,
                   crashed, grounds>>

\* the store executes a SELECT on users, on messages, or the roster query
ExecSelect(op) ==
    /\ ~crashed
    /\ InPending(op) /\ op.st = "sent"
    /\ op.pc \in {"login:select", "signup:select", "setuser:select", "history", "roster"}
    /\ \E new \in (IF op.pc = "history"
                   THEN {[Done(op) EXCEPT !.rows = [i \in DOMAIN s |-> messages[s[i]]]] :
                            s \in Orderings({i \in 1..Len(messages) : HistoryWhere(messages[i], op.from, op.u)})}
                   ELSE IF op.pc = "roster"
                   THEN {[Done(op) EXCEPT !.list = SelectRoster]}
                   ELSE {SelectUser(op)}) :
          pending' = Swap(op, new)
    /\ out' = <<>>
    /\ UNCHANGED <<variant, session, dbUsers, messages, users, username, connected,
                   crashed, grounds, spent>>

\* the store executes an UPDATE or INSERT on users
ExecWriteUser(op) ==
    /\ ~crashed
    /\ InPending(op) /\ op.st = "sent"
    /\ op.pc \in {"login:update", "loginUser:update", "setup:update", "signup:insert",
                  "setuser:update", "disc:update"}
    /\ LET violates == \/ op.pc = "signup:insert" /\ dbUsers[op.u].present
                       \/ op.pc = "setuser:update" /\ SocketTaken(op.u, op.c)
       IN  /\ pending' = Swap(op, IF violates THEN Failed(op) ELSE Done(op))
           /\ dbUsers' =
                IF violates THEN dbUsers
                ELSE CASE op.pc \in {"login:update", "loginUser:update"} -> SetOnline(op.u, TRUE)
                       [] op.pc = "setup:update" -> SetPassword(op.u, op.x)
                       [] op.pc = "signup:insert" -> InsertUser(op.u, op.x)
                       [] op.pc = "setuser:update" -> SetSocket(op.u, op.c)
                       [] op.pc = "disc:update" ->
                            IF variant = "p1a" THEN ClearSocket(op.u) ELSE SetOnline(op.u, FALSE)
           /\ grounds' =
                IF \/ op.pc = "signup:insert" /\ ~violates
                   \/ op.pc = "setup:update" /\ dbUsers[op.u].present /\ dbUsers[op.u].password = Null
                THEN grounds \cup {<<op.c, op.u>>}
                ELSE grounds
    /\ out' = <<>>
    /\ UNCHANGED <<variant, session, messages, users, username, connected,
                   crashed, spent>>

\* the store executes the INSERT of a message
ExecInsertMessage(op) ==
    /\ ~crashed
    /\ InPending(op) /\ op.st = "sent"
    /\ op.pc \in {"save", "chat:insert"}
    /\ \E ts \in Stamps : messages' = InsertMessage(op.from, op.u, op.x, ts)
    /\ pending' = Swap(op, Done(op))
    /\ out' = <<>>
    /\ UNCHANGED <<variant, session, dbUsers, users, username, connected,
                   crashed, grounds, spent>>

\* ------------------------------------------------------------ continuations
\* a store call has completed and its continuation runs now
Resumes(op, pc) == ~crashed /\ InPending(op) /\ op.st = "done" /\ op.pc = pc
Finish(op) == pending (-) One(op)

\* what the variant answers to a login that names no row / a row without password
NoSuchUser(c, u) ==
    CASE variant = "index" -> Ev(c, "login failed", "User does not exist.")
      [] variant = "p0" -> Ev(c, "prompt signup", "User not found. Would you like to sign up?")
      [] OTHER -> Ev(c, "require sign up", u)
NoPassword(c, u) ==
    CASE variant = "index" -> Ev(c, "require password setup", "")
      [] variant = "p0" -> Ev(c, "prompt signup", "User exists but no password set. Would you like to set a password?")
      [] OTHER -> Ev(c, "require sign up", u)
\* the catch block of the login handler
LoginError(c) ==
    IF variant = "p0"
    THEN Ev(c, "login failed", "An error occurred during login. Please try again.")
    ELSE Ev(c, "login failed", "An error occurred.")
RosterName == IF variant \in {"p0", "p1b"} THEN "users" ELSE "users list"

\* index.js and the second server of part_001 assign socket.username before the
\* UPDATE is awaited; loginUser of part_000 assigns it after
BindsBeforeUpdate(v) == v \in {"index", "p1b"}

\* login: the SELECT returned, bcrypt.compare ran
CbLoginSelect(op) ==
    /\ Resumes(op, "login:select")
    /\ LET c == op.c
           u == op.u
           match == op.res = "row" /\ op.pw # Null /\ Compare(op.x, op.pw)
       IN  /\ out' = CASE op.res = "err" -> <<LoginError(c)>>
                       [] op.res = "none" -> <<NoSuchUser(c, u)>>
                       [] op.pw = Null -> <<NoPassword(c, u)>>
                       [] match -> <<>>
                       [] OTHER -> <<Ev(c, "login failed", "Invalid password.")>>
           /\ pending' =
                IF match
                THEN Finish(op) (+) One(
                        IF variant = "p0"
                        THEN [Op(c, "loginUser:update") EXCEPT !.u = u, !.x = "login", !.prior = op.prior]
                        ELSE [Op(c, "login:update") EXCEPT !.u = u, !.prior = op.prior])
                ELSE Finish(op)
           /\ username' = IF match /\ BindsBeforeUpdate(variant)
                          THEN [username EXCEPT ![c] = u] ELSE username
           /\ grounds' = IF match THEN grounds \cup {<<c, u>>} ELSE grounds
    /\ UNCHANGED <<variant, session, dbUsers, messages, users, connected, crashed,
                   spent>>

\* socket.request.session as the code finds it: an object or undefined, the same
\* on every read of one socket
SessionReads(c) == IF session[c] = "unread" THEN {"yes", "no"} ELSE {session[c]}

\* login of index.js and part_001: the UPDATE online = TRUE returned
CbLoginUpdate(op) ==
    /\ Resumes(op, "login:update")
    /\ LET c == op.c
           u == op.u
       IN  IF op.res = "err"
           THEN /\ out' = <<LoginError(c)>>
                /\ pending' = Finish(op)
                /\ UNCHANGED <<users, session>>
           ELSE /\ users' = [users EXCEPT ![u] = Entry(c)]
                /\ \E s \in SessionReads(c) :
                     /\ session' = [session EXCEPT ![c] = s]
                     /\ IF s = "no"
                        THEN \* socket.request.session.username = ... throws; the catch block runs
                             /\ out' = <<LoginError(c)>>
                             /\ pending' = Finish(op)
                        ELSE /\ pending' = Finish(op) (+) One(RosterOp) (+) One(HistoryOp(c, u, NoUser))
                             /\ out' = IF variant = "p1b" THEN <<Ev(c, "login success", u)>> ELSE <<>>
    /\ UNCHANGED <<variant, dbUsers, messages, username, connected, crashed,
                   grounds, spent>>

\* loginUser(socket, username) of part_000, after its UPDATE; op.x is the caller
CbLoginUser(op) ==
    /\ Resumes(op, "loginUser:update")
    /\ LET c == op.c
           u == op.u
       IN  IF op.res = "err"
           THEN /\ out' = CASE op.x = "login" -> <<LoginError(c)>>
                            [] op.x = "signup" -> <<Ev(c, "signup failed", "Signup failed. User may already exist.")>>
                            [] OTHER -> <<Ev(c, "setup failed", "Password setup failed.")>>
                /\ pending' = Finish(op)
                /\ UNCHANGED <<users, username>>
           ELSE /\ users' = [users EXCEPT ![u] = Entry(c)]
                /\ username' = [username EXCEPT ![c] = u]
                /\ pending' = Finish(op) (+) One(RosterOp)
                \* loadPrivateMessageHistory(username, null, ...) calls back with []
                /\ out' = <<Ev(c, "login success", u), Ev(c, "chat history", "")>>
    /\ UNCHANGED <<variant, session, dbUsers, messages, connected, crashed,
                   grounds, spent>>

\* setup password: the UPDATE password returned
CbSetupUpdate(op) ==
    /\ Resumes(op, "setup:update")
    /\ IF op.res = "err"
       THEN /\ out' = <<Ev(op.c, "setup failed", "Password setup failed.")>>
            /\ pending' = Finish(op)
       ELSE /\ out' = <<Ev(op.c, "password setup successful", "")>>
            /\ pending' = IF variant = "p0"
                          THEN Finish(op) (+) One([Op(op.c, "loginUser:update") EXCEPT
                                                      !.u = op.u, !.x = "setup", !.prior = op.prior])
                          ELSE Finish(op)
    /\ UNCHANGED <<variant, session, dbUsers, messages, users, username, connected,
                   crashed, grounds, spent>>

\* signup of part_001: the SELECT returned
CbSignupSelect(op) ==
    /\ Resumes(op, "signup:select")
    /\ CASE op.res = "err" ->
              /\ out' = <<Ev(op.c, "signup failed", "An error occurred.")>>
              /\ pending' = Finish(op)
         [] op.res = "row" ->
              /\ out' = <<Ev(op.c, "signup failed", "Username is already taken.")>>
              /\ pending' = Finish(op)
         [] OTHER ->
              /\ out' = <<>>
              /\ pending' = Finish(op) (+) One([Op(op.c, "signup:insert") EXCEPT
                                                  !.u = op.u, !.x = Hash(op.x), !.prior = op.prior])
    /\ UNCHANGED <<variant, session, dbUsers, messages, users, username, connected,
                   crashed, grounds, spent>>

\* signup: the INSERT returned
CbSignupInsert(op) ==
    /\ Resumes(op, "signup:insert")
    /\ LET c == op.c
           u == op.u
       IN  IF variant = "p0"
           THEN /\ IF op.res = "err"
                   THEN /\ out' = <<Ev(c, "signup failed", "Signup failed. User may already exist.")>>
                        /\ pending' = Finish(op)
                   ELSE /\ out' = <<>>
                        /\ pending' = Finish(op) (+) One([Op(c, "loginUser:update") EXCEPT
                                                            !.u = u, !.x = "signup", !.prior = op.prior])
                /\ UNCHANGED <<users, username, session>>
           ELSE IF op.res = "err"
           THEN /\ out' = <<Ev(c, "signup failed", "An error occurred.")>>
                /\ pending' = Finish(op)
                /\ UNCHANGED <<users, username, session>>
           ELSE /\ username' = [username EXCEPT ![c] = u]
                /\ users' = [users EXCEPT ![u] = Entry(c)]
                /\ \E s \in SessionReads(c) :
                     /\ session' = [session EXCEPT ![c] = s]
                     /\ IF s = "no"
                        THEN /\ out' = <<Ev(c, "signup failed", "An error occurred.")>>
                             /\ pending' = Finish(op)
                        ELSE /\ out' = <<Ev(c, "signup successful", u)>>
                             /\ pending' = Finish(op) (+) One(RosterOp)
    /\ UNCHANGED <<variant, dbUsers, messages, connected, crashed, grounds, spent>>

\* set username of the first server of part_001: the SELECT returned
CbSetUserSelect(op) ==
    /\ Resumes(op, "setuser:select")
    /\ LET c == op.c
           accepted == /\ op.res = "row"
                       /\ Compare(op.x, op.pw)
                       /\ ~(op.sid # Null /\ op.sid # c)
       IN  /\ out' = CASE op.res = "err" -> <<Ev(c, "login error", "An error occurred")>>
                       [] op.res = "none" -> <<Ev(c, "login error", "User does not exist")>>
                       [] ~Compare(op.x, op.pw) -> <<Ev(c, "login error", "Incorrect password")>>
                       [] op.sid # Null /\ op.sid # c ->
                            <<Ev(c, "login error", "User already logged in from another device")>>
                       [] OTHER -> <<>>
           /\ pending' = IF accepted
                         THEN Finish(op) (+) One([Op(c, "setuser:update") EXCEPT !.u = op.u, !.prior = op.prior])
                         ELSE Finish(op)
           /\ grounds' = IF accepted THEN grounds \cup {<<c, op.u>>} ELSE grounds
    /\ UNCHANGED <<variant, session, dbUsers, messages, users, username, connected,
                   crashed, spent>>

\* set username of the first server of part_001: the UPDATE returned
CbSetUserUpdate(op) ==
    /\ Resumes(op, "setuser:update")
    /\ IF op.res = "err"
       THEN /\ out' = <<Ev(op.c, "login error", "An error occurred")>>
            /\ pending' = Finish(op)
            /\ UNCHANGED <<users, username>>
       ELSE /\ users' = [users EXCEPT ![op.u] = Entry(op.c)]
            /\ username' = [username EXCEPT ![op.c] = op.u]
            /\ pending' = Finish(op) (+) One(RosterOp) (+) One(HistoryOp(op.c, op.u, NoUser))
            /\ out' = <<>>
    /\ UNCHANGED <<variant, session, dbUsers, messages, connected, crashed,
                   grounds, spent>>

\* saveMessage's callback: an error is logged, nothing else
CbSave(op) ==
    /\ Resumes(op, "save")
    /\ pending' = Finish(op)
    /\ out' = <<>>
    /\ UNCHANGED <<variant, session, dbUsers, messages, users, username, connected,
                   crashed, grounds, spent>>

\* chat message of the first server of part_001, after await saveMessage(...),
\* which swallows the INSERT's error
CbChatInsert(op) ==
    /\ Resumes(op, "chat:insert")
    /\ pending' = Finish(op)
    /\ out' = ChatEmits(op.from, username[op.c], op.c, op.u, op.x)
    /\ UNCHANGED <<variant, session, dbUsers, messages, users, username, connected,
                   crashed, grounds, spent>>

\* row => ({ from: row.sender, to: row.receiver, msg: row.message, timestamp: row.timestamp })
ToMessage(row) ==
    [from |-> row.sender, to |-> row.receiver, msg |-> row.message, timestamp |-> row.timestamp]

\* the callback of loadPrivateMessageHistory's pool.query
CbHistory(op) ==
    /\ Resumes(op, "history")
    /\ pending' = Finish(op)
    /\ out' = IF op.res = "err"
              THEN IF variant = "p0" THEN <<Ev(op.c, "chat history", "")>> ELSE <<>>
              ELSE <<[Ev(op.c, "chat history", "") EXCEPT
                        !.messages = [i \in DOMAIN op.rows |-> ToMessage(op.rows[i])]]>>
    /\ UNCHANGED <<variant, session, dbUsers, messages, users, username, connected,
                   crashed, grounds, spent>>

\* the callback of updateUsersList's pool.query
CbRoster(op) ==
    /\ Resumes(op, "roster")
    /\ pending' = Finish(op)
    /\ out' = IF op.res = "err" THEN <<>>
              ELSE <<[Ev(All, RosterName, "") EXCEPT !.list = op.list]>>
    /\ UNCHANGED <<variant, session, dbUsers, messages, users, username, connected,
                   crashed, grounds, spent>>

\* disconnect: the UPDATE online = FALSE returned
CbDiscUpdate(op) ==
    /\ Resumes(op, "disc:update")
    /\ out' = <<>>
    /\ LET name == username[op.c]
       IN  CASE op.res = "err" ->
                  \* part_001's first server awaits without a try: the rejection is unhandled
                  /\ pending' = Finish(op)
                  /\ crashed' \in (IF variant = "p1a" THEN BOOLEAN ELSE {FALSE})
                  /\ UNCHANGED users
             [] op.res # "err" /\ variant = "p1a" ->
                  \* delete users[socket.username]
                  /\ users' = [users EXCEPT ![name] = Undefined]
                  /\ pending' = Finish(op) (+) One(RosterOp)
                  /\ UNCHANGED crashed
             [] op.res # "err" /\ variant = "p0" ->
                  \* if (users[socket.username]) users[socket.username].online = false
                  /\ users' = IF users[name].defined THEN MarkOffline(users, name) ELSE users
                  /\ pending' = Finish(op) (+) One(RosterOp)
                  /\ UNCHANGED crashed
             [] OTHER ->
                  \* users[socket.username].online = false, a TypeError on undefined
                  IF users[name].defined
                  THEN /\ users' = MarkOffline(users, name)
                       /\ pending' = Finish(op) (+) One(RosterOp)
                       /\ UNCHANGED crashed
                  ELSE /\ crashed' = TRUE
                       /\ pending' = Finish(op)
                       /\ UNCHANGED users
    /\ UNCHANGED <<variant, session, dbUsers, messages, username, connected,
                   grounds, spent>>

\* ------------------------------------------------------------------- Next
\* every call that can be in flight, for the quantifiers of Next
Calls == DOMAIN pending

Next ==
    \/ \E c \in Conns, u \in Names, p \in Passwords : Login(c, u, p)
    \/ \E c \in Conns, u \in Names, p \in NewPasswords : SetupPassword(c, u, p)
    \/ \E c \in Conns, u \in Names, p \in NewPasswords : Signup(c, u, p)
    \/ \E c \in Conns, u \in Names, p \in Passwords : SetUsername(c, u, p)
    \/ \E c \in Conns, to \in Names, msg \in Bodies : ChatMessage(c, to, msg)
    \/ \E c \in Conns, user \in Names \cup {NoUser} : LoadMessages(c, user)
    \/ \E c \in Conns : Disconnect(c)
    \/ \E op \in Calls : ExecFail(op)
    \/ \E op \in Calls : ExecSelect(op)
    \/ \E op \in Calls : ExecWriteUser(op)
    \/ \E op \in Calls : ExecInsertMessage(op)
    \/ \E op \in Calls : CbLoginSelect(op)
    \/ \E op \in Calls : CbLoginUpdate(op)
    \/ \E op \in Calls : CbLoginUser(op)
    \/ \E op \in Calls : CbSetupUpdate(op)
    \/ \E op \in Calls : CbSignupSelect(op)
    \/ \E op \in Calls : CbSignupInsert(op)
    \/ \E op \in Calls : CbSetUserSelect(op)
    \/ \E op \in Calls : CbSetUserUpdate(op)
    \/ \E op \in Calls : CbSave(op)
    \/ \E op \in Calls : CbChatInsert(op)
    \/ \E op \in Calls : CbHistory(op)
    \/ \E op \in Calls : CbRoster(op)
    \/ \E op \in Calls : CbDiscUpdate(op)

Spec == Init /\ [][Next]_vars

\* ------------------------------------------------------------------ claims
\* the 'online' column of every row
OnlineFlags(db) == [n \in Names |-> db[n].online]
\* the call that a step has just replaced op by
Replaced(op, new) == new \in DOMAIN pending' /\ pending' = Swap(op, new)
\* a handler of connection c that may still bind it is suspended in the store
Authenticating(c) ==
    \E op \in Calls : op.c = c /\ op.pc \in {"login:select", "login:update", "loginUser:update",
                                            "setup:update", "signup:select", "signup:insert",
                                            "setuser:select", "setuser:update"}
\* the last step ran the tail of a 'chat message' handler: its echo is the last event
ChatStep == out # <<>> /\ out[Len(out)].ev = "chat message"
TheEcho == out[Len(out)]

\* C1: a login whose password does not match the hash the SELECT returned emits
\* 'login failed' to the connection that sent it and changes neither that
\* connection's socket.username (an unbound connection stays unbound), nor
\* users, nor any stored online flag; the 'login' event itself changes none of
\* them either.
C1_WrongPasswordLoginFails ==
    [][/\ \A op \in Calls :
            (CbLoginSelect(op) /\ op.res = "row" /\ op.pw # Null /\ Hash(op.x) # op.pw)
            => /\ out' = <<Ev(op.c, "login failed", "Invalid password.")>>
               /\ username' = username
               /\ users' = users
               /\ OnlineFlags(dbUsers') = OnlineFlags(dbUsers)
       /\ \A c \in Conns, u \in Names, p \in Passwords :
            Login(c, u, p) => /\ username' = username
                              /\ users' = users
                              /\ OnlineFlags(dbUsers') = OnlineFlags(dbUsers)]_vars

\* C1 witness: an unbound connection has just been told 'login failed', Invalid password
C1_Witness ==
    \E c \in Conns : /\ out = <<Ev(c, "login failed", "Invalid password.")>>
                     /\ username[c] = NoUser

\* C2: when a store call of a login fails, the connection gets 'login failed' and
\* is as it was when the login arrived: socket.username has the value it had
\* then, and users is unchanged.
C2_FailedLoginLeavesPriorState ==
    [][\A op \in Calls :
          (op.res = "err" /\ (\/ CbLoginSelect(op)
                              \/ CbLoginUpdate(op)
                              \/ CbLoginUser(op) /\ op.x = "login"))
          => /\ out' = <<LoginError(op.c)>>
             /\ username'[op.c] = op.prior
             /\ users' = users]_vars

\* C3: the stored password hash of a user that has a password never changes.
C3_SetPasswordOnlyWhenNone ==
    [][\A n \in Names :
          (dbUsers[n].present /\ dbUsers[n].password # Null)
          => dbUsers'[n].password = dbUsers[n].password]_vars

\* C4: in the servers that check credentials, a connection is bound to u only if
\* it logged in with u's password, signed u up, or set the password of a u that
\* existed without one.
C4_BoundOnlyOnGrounds ==
    variant \in LoginVariants
    => \A c \in Conns : username[c] # NoUser => <<c, username[c]>> \in grounds

\* C5: a chat message from a connection without socket.username inserts no row
\* and emits nothing: no row, no INSERT in flight and no event has an undefined sender.
C5_UnboundChatIsNoOp ==
    /\ \A i \in DOMAIN out :
          out[i].ev \in {"chat message", "notification", "new message notification"}
          => out[i].from # NoUser
    /\ \A k \in DOMAIN messages : messages[k].sender # NoUser
    /\ \A op \in Calls : op.pc \in {"save", "chat:insert"} => op.from # NoUser

\* C6: every 'chat message' event emitted carries a message whose row is already
\* in table messages.
C6_StoredBeforeEmitted ==
    \A i \in DOMAIN out :
        out[i].ev = "chat message"
        => \E k \in DOMAIN messages : /\ messages[k].sender = out[i].from
                                      /\ messages[k].receiver = out[i].peer
                                      /\ messages[k].message = out[i].msg

\* C7: when A's chat message to another user B is handled while a connected
\* socket is bound to B (and is not in the middle of a login), exactly one 'chat
\* message' is emitted ahead of the echo, to users[B].socketId, from A, with the body sent.
C7_OnlineReceiverGetsOne ==
    (/\ ChatStep
     /\ TheEcho.from # NoUser
     /\ TheEcho.peer # TheEcho.from
     /\ \E b \in Conns : connected[b] /\ username[b] = TheEcho.peer /\ ~Authenticating(b))
    => /\ users[TheEcho.peer].defined
       /\ Cardinality({i \in 1..(Len(out) - 1) :
                          /\ out[i].ev = "chat message"
                          /\ out[i].to = users[TheEcho.peer].socketId
                          /\ out[i].from = TheEcho.from
                          /\ out[i].msg = TheEcho.msg}) = 1

\* C7 failing state: bob's send to alice is echoed and delivered to nobody while a
\* connected socket is bound to alice
C7_Undelivered ==
    /\ ChatStep /\ Len(out) = 1
    /\ TheEcho.from # NoUser /\ TheEcho.peer # TheEcho.from
    /\ \E b \in Conns : connected[b] /\ username[b] = TheEcho.peer /\ ~Authenticating(b)

\* the receiver of a send has no presence entry, or one marked offline
Offline(to) == ~users[to].defined \/ ~users[to].online
\* the events of a step that are addressed to a socket other than c
ToOthers(evs, c) == {i \in DOMAIN evs : evs[i].to # c}
\* how many rows of table messages equal row
CountRows(seq, row) == Cardinality({i \in DOMAIN seq : seq[i] = row})

\* C8: when the receiver of a send has no presence entry or is marked offline, the
\* handler emits the echo to the sender's socket and nothing to any other socket,
\* and still issues the INSERT; the INSERT appends the row; a history query of the
\* receiver that the store executes afterwards returns every row addressed to
\* the receiver (from the named peer, or from anyone when no peer is named), and
\* its callback emits them to the receiver's socket.
C8_OfflineReceiverStoredOnly ==
    [][/\ \A c \in Conns, to \in Names, msg \in Bodies :
            (ChatMessage(c, to, msg) /\ ChatGuard(variant, username[c])
                                     /\ variant # "p1a" /\ Offline(to))
            => /\ out' = Echo(username[c], c, to, msg)
               /\ ToOthers(out', c) = {}
               /\ CopiesIn(SaveOp(c, "save", username[c], to, msg), pending')
                    = CopiesIn(SaveOp(c, "save", username[c], to, msg), pending) + 1
       /\ \A op \in Calls :
            (CbChatInsert(op) /\ Offline(op.u))
            => /\ ToOthers(out', op.c) = {}
               /\ op.res = "ok" => \E k \in DOMAIN messages :
                                      /\ messages[k].sender = op.from
                                      /\ messages[k].receiver = op.u
                                      /\ messages[k].message = op.x
       /\ \A op \in Calls :
            ExecInsertMessage(op)
            => /\ Len(messages') = Len(messages) + 1
               /\ SubSeq(messages', 1, Len(messages)) = messages
               /\ messages'[Len(messages')].sender = op.from
               /\ messages'[Len(messages')].receiver = op.u
               /\ messages'[Len(messages')].message = op.x
       /\ \A op \in Calls :
            (ExecSelect(op) /\ op.pc = "history" /\ op.from # NoUser)
            => \A new \in DOMAIN pending' :
                 Replaced(op, new)
                 => \A k \in DOMAIN messages :
                      (messages[k].receiver = op.from
                          /\ (op.u = NoUser \/ messages[k].sender = op.u))
                      => CountRows(new.rows, messages[k]) = CountRows(messages, messages[k])
       /\ \A op \in Calls :
            (CbHistory(op) /\ op.res = "ok")
            => /\ Len(out') = 1
               /\ out'[1].to = op.c /\ out'[1].ev = "chat history"
               /\ Len(out'[1].messages) = Len(op.rows)]_vars

\* C8 witness: a bound sender's message to a user whose presence entry is marked
\* offline has just been echoed to the sender alone, its INSERT in flight
C8_Witness ==
    /\ ChatStep /\ Len(out) = 1
    /\ TheEcho.from # NoUser /\ TheEcho.peer # TheEcho.from
    /\ users[TheEcho.peer].defined /\ ~users[TheEcho.peer].online
    /\ \E op \in Calls : /\ op.pc = "save" /\ op.st = "sent" /\ op.c = TheEcho.to
                         /\ op.from = TheEcho.from /\ op.u = TheEcho.peer
                         /\ op.x = TheEcho.msg

\* the 'chat message' events among evs that reach socket c with these fields
CopiesTo(evs, c, from, to, msg) ==
    {i \in DOMAIN evs : /\ evs[i].ev = "chat message" /\ evs[i].to = c
                        /\ evs[i].from = from /\ evs[i].peer = to /\ evs[i].msg = msg}
\* the receiver's presence entry is online and registered on socket c
OnSocket(to, c) == users[to].defined /\ users[to].online /\ users[to].socketId = c
\* what the tail of a 'chat message' handler emitted: the echo to c is the last
\* event, everything before it went to the receiver's registered socket, and c
\* got one 'chat message' for the send, or two when the receiver is registered on c
EchoedLast(evs, c, from, to, msg) ==
    /\ evs # <<>>
    /\ evs[Len(evs)] = [Ev(c, "chat message", "") EXCEPT !.from = from, !.peer = to, !.msg = msg]
    /\ \A i \in 1..(Len(evs) - 1) :
          users[to].defined /\ users[to].online /\ evs[i].to = users[to].socketId
    /\ Cardinality(CopiesTo(evs, c, from, to, msg)) = IF OnSocket(to, c) THEN 2 ELSE 1

\* C9 as stated: a chat message from a bound connection puts exactly one 'chat
\* message' event with its from, to and msg on that connection, as the last event.
C9_ExactlyOneEcho ==
    [][/\ \A c \in Conns, to \in Names, msg \in Bodies :
            (ChatMessage(c, to, msg) /\ username[c] # NoUser /\ variant # "p1a")
            => /\ Cardinality(CopiesTo(out', c, username[c], to, msg)) = 1
               /\ out'[Len(out')].to = c
       /\ \A op \in Calls :
            (CbChatInsert(op) /\ op.from # NoUser)
            => /\ Cardinality(CopiesTo(out', op.c, op.from, op.u, op.x)) = 1
               /\ out'[Len(out')].to = op.c]_vars

\* C9: a chat message from a bound connection makes its handler emit the echo to
\* that connection, with the same from, to and msg, as its last event, after any
\* delivery; it is the only 'chat message' event the connection gets for the send
\* unless the receiver's online presence entry is registered on that same
\* connection, and then the connection gets two: the delivery, then the echo.
C9_EchoLastAfterDelivery ==
    [][/\ \A c \in Conns, to \in Names, msg \in Bodies :
            (ChatMessage(c, to, msg) /\ username[c] # NoUser /\ variant # "p1a")
            => EchoedLast(out', c, username[c], to, msg)
       /\ \A op \in Calls :
            (CbChatInsert(op) /\ op.from # NoUser)
            => EchoedLast(out', op.c, op.from, op.u, op.x)]_vars

\* C9 witness: a delivery to another socket, its notification, and then the echo
C9_Witness ==
    /\ ChatStep /\ Len(out) = 3
    /\ TheEcho.from # NoUser
    /\ out[1].ev = "chat message" /\ out[1].to # TheEcho.to
    /\ out[1].from = TheEcho.from /\ out[1].msg = TheEcho.msg

\* C10: rows of table messages are only ever appended; a history query of A that
\* names B, when the store executes it, returns every stored row from A to B as
\* many times as it is stored, and the callback emits one 'chat history' to A's
\* socket whose i-th entry has from, to, msg and timestamp of the i-th row.
C10_HistoryHasEachSendOnce ==
    [][/\ Len(messages') >= Len(messages)
       /\ SubSeq(messages', 1, Len(messages)) = messages
       /\ \A op \in Calls :
            (ExecSelect(op) /\ op.pc = "history" /\ op.from # NoUser /\ op.u # NoUser)
            => \A new \in DOMAIN pending' :
                 Replaced(op, new)
                 => /\ new.res = "ok"
                    /\ \A k \in DOMAIN messages :
                         (messages[k].sender = op.from /\ messages[k].receiver = op.u)
                         => CountRows(new.rows, messages[k]) = CountRows(messages, messages[k])
       /\ \A op \in Calls :
            (CbHistory(op) /\ op.res = "ok")
            => /\ out' = <<[Ev(op.c, "chat history", "") EXCEPT !.messages = out'[1].messages]>>
               /\ DOMAIN out'[1].messages = DOMAIN op.rows
               /\ \A i \in DOMAIN op.rows :
                    /\ out'[1].messages[i].from = op.rows[i].sender
                    /\ out'[1].messages[i].to = op.rows[i].receiver
                    /\ out'[1].messages[i].msg = op.rows[i].message
                    /\ out'[1].messages[i].timestamp = op.rows[i].timestamp]_vars

\* C10 witness: a connection has just received a 'chat history' holding a message
\* that its own user sent to another user
C10_Witness ==
    \E c \in Conns :
        /\ Len(out) = 1 /\ out[1].ev = "chat history" /\ out[1].to = c
        /\ username[c] # NoUser
        /\ \E i \in DOMAIN out[1].messages :
              /\ out[1].messages[i].from = username[c]
              /\ out[1].messages[i].to \in Names \ {username[c]}
              /\ out[1].messages[i].msg \in Bodies

\* the rows of table messages that the query of user1 naming user2 matches
Conversation(user1, user2) == {i \in 1..Len(messages) : HistoryWhere(messages[i], user1, user2)}
\* the sequence of rows that an ordering of row numbers stands for
RowsOf(s) == [i \in DOMAIN s |-> messages[s[i]]]

\* C11: the sequence a query of A naming B returned, when it covers the rows now
\* stored, is the sequence that a query of B naming A returns on the same rows:
\* every sequence the store may return for B's query equals it.
C11_SymmetricView ==
    \A op \in Calls :
        (/\ op.pc = "history" /\ op.st = "done" /\ op.res = "ok"
         /\ op.from # NoUser /\ op.u # NoUser
         /\ Len(op.rows) = Cardinality(Conversation(op.from, op.u)))
        => \A s \in Orderings(Conversation(op.u, op.from)) : RowsOf(s) = op.rows

\* C11 failing state: a query of A naming B has returned two rows of one timestamp
C11_TiedRows ==
    \E op \in Calls :
        /\ op.pc = "history" /\ op.st = "done" /\ op.res = "ok"
        /\ op.from # NoUser /\ op.u # NoUser
        /\ Len(op.rows) = 2
        /\ op.rows[1] # op.rows[2]
        /\ op.rows[1].timestamp = op.rows[2].timestamp

\* the rows of table messages that user u sent or received
Involving(u) == {k \in 1..Len(messages) : messages[k].sender = u \/ messages[k].receiver = u}
\* the 'chat history' events among evs that go to socket c
HistoriesTo(evs, c) == {i \in DOMAIN evs : evs[i].ev = "chat history" /\ evs[i].to = c}

\* C12: a history load that names no peer answers user u with every stored row
\* that u sent or received (so with the one message alice sent while bob was
\* offline): the query the store executes returns those rows, and a load that is
\* answered without a query (after loginUser, or 'load messages' without a user)
\* carries as many entries as there are such rows.
C12_NoPeerHistoryHasTheMessage ==
    [][/\ \A op \in Calls :
            (ExecSelect(op) /\ op.pc = "history" /\ op.u = NoUser /\ op.from # NoUser)
            => \A new \in DOMAIN pending' :
                 Replaced(op, new)
                 => /\ Len(new.rows) = Cardinality(Involving(op.from))
                    /\ \A k \in Involving(op.from) :
                          CountRows(new.rows, messages[k]) = CountRows(messages, messages[k])
       /\ \A op \in Calls :
            (CbLoginUser(op) /\ op.res = "ok")
            => \E i \in HistoriesTo(out', op.c) :
                  Len(out'[i].messages) = Cardinality(Involving(op.u))
       /\ \A c \in Conns :
            (LoadMessages(c, NoUser) /\ username[c] # NoUser /\ variant = "p0")
            => \E i \in HistoriesTo(out', c) :
                  Len(out'[i].messages) = Cardinality(Involving(username[c]))]_vars

\* C12 failing state: loginUser has just answered bob's login with an empty 'chat
\* history' while table messages holds the message alice sent to bob
C12_EmptyHistoryAfterLogin ==
    \E c \in Conns :
        /\ variant = "p0"
        /\ Len(out) = 2 /\ out[1] = Ev(c, "login success", username[c])
        /\ out[2] = Ev(c, "chat history", "")
        /\ \E k \in DOMAIN messages : /\ messages[k].receiver = username[c]
                                      /\ messages[k].sender \in Names \ {username[c]}

\* the roster events among evs
Rosters(evs) == {i \in DOMAIN evs : evs[i].ev \in {"users", "users list"}}
\* users[n].online as a roster would show it: an absent entry is not online
RegistryOnline(n) == users[n].defined /\ users[n].online

\* C13: every roster event lists each user with the online flag that users holds
\* for that user when the event is emitted.
C13_RosterShowsRegistry ==
    \A i \in Rosters(out) :
        \A e \in out[i].list : e.online = RegistryOnline(e.username)

\* C13 failing state: a roster event of part_000 shows a user online whose entry
\* in users is marked offline
C13_StaleRoster ==
    /\ variant = "p0"
    /\ \E i \in Rosters(out) :
          \E e \in out[i].list : e.online /\ users[e.username].defined /\ ~users[e.username].online

\* the username was unregistered before: its entry is marked offline (deleted, in
\* the first server of part_001, where a bound socket has always been registered)
Unregistered(name) ==
    IF variant = "p1a" THEN ~users[name].defined
    ELSE users[name].defined /\ ~users[name].online

\* C14: an unregister of a username that was unregistered before raises no error
\* and changes nothing in users; every unregister leaves the user not online and
\* every other user's entry as it was.
C14_UnregisterIdempotent ==
    [][/\ \A op \in Calls :
            (CbDiscUpdate(op) /\ op.res = "ok" /\ Unregistered(username[op.c]))
            => /\ ~crashed'
               /\ users' = users
               /\ out' = <<>>
       /\ \A op \in Calls :
            (CbDiscUpdate(op) /\ op.res = "ok" /\ users[username[op.c]].defined)
            => /\ ~crashed'
               /\ ~(users'[username[op.c]].defined /\ users'[username[op.c]].online)
               /\ \A n \in Names \ {username[op.c]} : users'[n] = users[n]
       /\ \A c \in Conns :
            (Disconnect(c) /\ variant = "p1c" /\ username[c] # NoUser)
            => /\ ~crashed'
               /\ users'[username[c]].defined /\ ~users'[username[c]].online
               /\ Unregistered(username[c]) => users' = users
               /\ \A n \in Names \ {username[c]} : users'[n] = users[n]]_vars

\* C14 witness: both sockets were bound to one username, both have disconnected
\* and both unregisters have run; the server runs and the user is offline
C14_Witness ==
    /\ ~crashed
    /\ username["c1"] # NoUser /\ username["c2"] = username["c1"]
    /\ ~connected["c1"] /\ ~connected["c2"]
    /\ \A op \in Calls : op.pc # "disc:update"
    /\ users[username["c1"]].defined /\ ~users[username["c1"]].online

\* the 'login success' events among evs that tell socket c it is now user u
Successes(evs, c, u) == {i \in DOMAIN evs : evs[i] = Ev(c, "login success", u)}

\* C15: when the login of an unbound socket with the right password has had
\* both store calls succeed, the step that finishes the handler emits exactly
\* one 'login success' to that socket and leaves users[u] online with its id.
C15_LoginSucceedsOnce ==
    [][\A op \in Calls :
          (/\ CbLoginUpdate(op) \/ (CbLoginUser(op) /\ op.x = "login")
           /\ op.res = "ok" /\ op.prior = NoUser)
          => /\ Cardinality(Successes(out', op.c, op.u)) = 1
             /\ users'[op.u] = Entry(op.c)]_vars

\* C15 failing state: src/index.js has registered the socket for a login with the
\* right password and has answered it with 'login failed'
C15_RegisteredButFailed ==
    \E c \in Conns :
        /\ variant = "index"
        /\ username[c] # NoUser /\ users[username[c]] = Entry(c)
        /\ out = <<LoginError(c)>>

\* exactly one event, a 'signup failed' to socket c
SignupFailed(evs, c) == Len(evs) = 1 /\ evs[1].ev = "signup failed" /\ evs[1].to = c

\* C16: a signup that names a user who has a row is answered with 'signup failed'
\* and changes no row, no socket.username and no entry of users: the event itself
\* changes none of them; the SELECT of the second server of part_001 finds the
\* row and its continuation fails the signup without an INSERT; the INSERT of
\* part_000 is refused by the store and its continuation fails the signup
\* without calling loginUser.
C16_SignupOfTakenNameFails ==
    [][/\ \A c \in Conns, u \in Names, p \in NewPasswords :
            Signup(c, u, p) => /\ dbUsers' = dbUsers
                               /\ username' = username
                               /\ users' = users
       /\ \A op \in Calls :
            (ExecSelect(op) /\ op.pc = "signup:select" /\ dbUsers[op.u].present)
            => \A new \in DOMAIN pending' : Replaced(op, new) => new.res = "row"
       /\ \A op \in Calls :
            (ExecWriteUser(op) /\ op.pc = "signup:insert" /\ dbUsers[op.u].present)
            => /\ dbUsers' = dbUsers
               /\ Replaced(op, Failed(op))
       /\ \A op \in Calls :
            (\/ CbSignupSelect(op) /\ op.res = "row"
             \/ CbSignupInsert(op) /\ op.res = "err")
            => /\ SignupFailed(out', op.c)
               /\ pending' = Finish(op)
               /\ dbUsers' = dbUsers
               /\ username' = username
               /\ users' = users]_vars

\* C16 witness: the only thing that has happened is a signup for a name that has
\* a row, and the unbound socket that sent it has been told 'signup failed'
C16_Witness ==
    \E c \in Conns :
        /\ SignupFailed(out, c)
        /\ spent = 1
        /\ username[c] = NoUser
        /\ users = [n \in Names |-> Undefined]

\* the events that tell a client to sign up / to set a password (part_000 asks
\* for the password in the reason of its 'prompt signup')
NeedsSignup(e) == e.ev \in {"prompt signup", "require sign up"}
NeedsPasswordSetup(e) ==
    \/ e.ev = "require password setup"
    \/ e.ev = "prompt signup"
         /\ e.arg = "User exists but no password set. Would you like to set a password?"

\* C17: a login that names no row, or a row without a password, changes no
\* socket.username, no entry of users and no row, issues no further store call,
\* and is answered with one event to the socket that sent it: one that asks
\* for a signup in the first case, for a password setup in the second.
C17_LoginOfUnknownOrPasswordless ==
    [][\A op \in Calls :
          (CbLoginSelect(op) /\ (op.res = "none" \/ (op.res = "row" /\ op.pw = Null)))
          => /\ username' = username
             /\ users' = users
             /\ dbUsers' = dbUsers
             /\ pending' = Finish(op)
             /\ Len(out') = 1 /\ out'[1].to = op.c
             /\ IF op.res = "none" THEN NeedsSignup(out'[1]) ELSE NeedsPasswordSetup(out'[1])]_vars

\* C17 failing state: src/index.js has answered the login of an unknown user with
\* 'login failed'
C17_UnknownUserLoginFailed ==
    \E c \in Conns :
        /\ variant = "index"
        /\ out = <<Ev(c, "login failed", "User does not exist.")>>
        /\ username[c] = NoUser

\* C18: the disconnect of a bound socket unregisters its user: when the store
\* executes the UPDATE the stored online flag becomes false, and when the
\* continuation of the UPDATE has run, whether the UPDATE succeeded or failed,
\* users does not show the user online; the third server of part_001
\* unregisters in the 'disconnect' handler itself.
C18_DisconnectUnregisters ==
    [][/\ \A op \in Calls :
            (ExecWriteUser(op) /\ op.pc = "disc:update" /\ dbUsers[op.u].present)
            => ~dbUsers'[op.u].online
       /\ \A op \in Calls :
            CbDiscUpdate(op) => ~(users'[op.u].defined /\ users'[op.u].online)
       /\ \A c \in Conns :
            (Disconnect(c) /\ variant = "p1c" /\ username[c] # NoUser)
            => ~(users'[username[c]].defined /\ users'[username[c]].online)]_vars

\* C18 failing state: a socket has disconnected, nothing of its 'disconnect'
\* handler is left to run, and users still shows its user online on that socket
C18_StillOnline ==
    \E c \in Conns :
        /\ ~crashed
        /\ ~connected[c] /\ username[c] # NoUser
        /\ \A op \in Calls : ~(op.pc = "disc:update" /\ op.c = c)
        /\ users[username[c]] = Entry(c)

\* C19: a step that changes users emits a roster to every socket or starts the
\* roster query, and the continuation of every roster query emits a roster to
\* every socket.
C19_RegistryChangeBroadcasts ==
    [][/\ users' # users
            => \/ \E i \in Rosters(out') : out'[i].to = All
               \/ CopiesIn(RosterOp, pending') = CopiesIn(RosterOp, pending) + 1
       /\ \A op \in Calls :
            CbRoster(op) => \E i \in Rosters(out') : out'[i].to = All]_vars

\* C19 failing state: a login has registered its socket in users and ended in
\* 'login failed', and no roster query is in flight
C19_RegisteredNoRoster ==
    \E c \in Conns :
        /\ username[c] # NoUser /\ users[username[c]] = Entry(c)
        /\ out = <<LoginError(c)>>
        /\ \A op \in Calls : op.pc # "roster"

\* the step is the end of a login that succeeds: the continuation of its UPDATE
\* runs to the end of the handler
LoginRegisters(op) ==
    \/ CbLoginUpdate(op) /\ op.res = "ok" /\ session'[op.c] = "yes"
    \/ CbLoginUser(op) /\ op.res = "ok" /\ op.x = "login"
\* the step ends a store call that socket c awaited in order to register as n
Registering(op, c, n) ==
    /\ op.c = c /\ op.u = n /\ op.st = "done" /\ op.res = "ok"
    /\ op.pc \in {"login:update", "loginUser:update", "signup:insert", "setuser:update"}
    /\ CopiesIn(op, pending') < CopiesIn(op, pending)
\* the events that report a failure to a client
IsError(e) == e.ev \in {"login failed", "login error", "signup failed", "setup failed"}

\* C20: a login whose UPDATE succeeded makes its own socket the handle of the
\* username, whatever socket was the handle before, and changes no other entry;
\* a login that runs to the end of its handler emits no error to any socket; the
\* handle of a username changes only in a step in which
\* a socket registers for that username (or, in the first server of part_001,
\* when the entry is deleted); and whatever a 'chat message' handler emits ahead of
\* the echo goes to the handle of the receiver.
C20_LastRegisterWins ==
    [][/\ \A op \in Calls :
            ((CbLoginUpdate(op) \/ CbLoginUser(op)) /\ op.res = "ok")
            => /\ users'[op.u].defined /\ users'[op.u].online
               /\ users'[op.u].socketId = op.c
               /\ \A n \in Names \ {op.u} : users'[n] = users[n]
       /\ \A op \in Calls :
            LoginRegisters(op) => \A i \in DOMAIN out' : ~IsError(out'[i])
       /\ \A n \in Names :
            users'[n].socketId # users[n].socketId
            => \/ ~users'[n].defined
               \/ \E c \in Conns : /\ users'[n].socketId = c /\ users'[n].online
                                   /\ \/ SetUsername(c, n, "p1")
                                      \/ \E op \in Calls : Registering(op, c, n)
       /\ \A c \in Conns, to \in Names, msg \in Bodies :
            (ChatMessage(c, to, msg) /\ out' # <<>>)
            => \A i \in 1..(Len(out') - 1) : out'[i].to = users[to].socketId
       /\ \A op \in Calls :
            CbChatInsert(op)
            => \A i \in 1..(Len(out') - 1) : out'[i].to = users[op.u].socketId]_vars

\* C20 witness: in part_000 both sockets are open and logged in as one user, and
\* a message that the socket which is not the handle sent to that user has just
\* been delivered to the handle and echoed to the sender
C20_Witness ==
    /\ variant = "p0"
    /\ connected["c1"] /\ connected["c2"]
    /\ username["c1"] # NoUser /\ username["c2"] = username["c1"]
    /\ ChatStep /\ Len(out) = 3
    /\ TheEcho.peer = username["c1"]
    /\ out[1].to = users[username["c1"]].socketId
    /\ out[2].to = users[username["c1"]].socketId
    /\ TheEcho.to # users[username["c1"]].socketId

\* C21: no handler and no continuation of a store call leaves an exception
\* uncaught; in particular, when the UPDATE of a 'disconnect' has succeeded and
\* its continuation is about to write to users[socket.username], that entry exists.
C21_NoUncaughtException ==
    /\ ~crashed
    /\ \A op \in Calls :
          (op.pc = "disc:update" /\ op.st = "done" /\ op.res = "ok" /\ variant # "p1a")
          => users[username[op.c]].defined

\* C21 failing state: src/index.js bound a socket whose login then failed in the
\* UPDATE, the socket disconnected, and the continuation of the disconnect's
\* UPDATE threw on users[socket.username], which was never written
C21_DisconnectThrew ==
    \E c \in Conns :
        /\ variant = "index"
        /\ crashed
        /\ ~connected[c] /\ username[c] # NoUser
        /\ ~users[username[c]].defined

\* the timestamps of a sequence of rows or messages never descend
Ascending(seq) == \A i, j \in DOMAIN seq : i < j => seq[i].timestamp <= seq[j].timestamp
\* rows holds exactly the stored rows numbered in S, each as often as it is stored
ExactlyRows(rows, S) ==
    /\ Len(rows) = Cardinality(S)
    /\ \A i \in DOMAIN rows : \E k \in S : rows[i] = messages[k]
    /\ \A k \in S : CountRows(rows, messages[k]) = Cardinality({j \in S : messages[j] = messages[k]})

\* C22: a history load that names no peer, for a socket bound to u, is answered
\* with the stored rows that u sent or received, all of them and no other, in
\* ascending order of timestamp: the query returns them so, its continuation
\* emits them as returned, and an answer given without a query (after loginUser,
\* or to 'load messages' without a user) holds as many entries as there are such rows.
C22_NoPeerHistoryIsAllOfUsers ==
    [][/\ \A op \in Calls :
            (ExecSelect(op) /\ op.pc = "history" /\ op.u = NoUser /\ op.from # NoUser)
            => \A new \in DOMAIN pending' :
                 Replaced(op, new)
                 => /\ new.res = "ok"
                    /\ ExactlyRows(new.rows, Involving(op.from))
                    /\ Ascending(new.rows)
       /\ \A op \in Calls :
            (CbHistory(op) /\ op.res = "ok" /\ op.u = NoUser /\ op.from # NoUser)
            => out' = <<[Ev(op.c, "chat history", "") EXCEPT
                           !.messages = [i \in DOMAIN op.rows |-> ToMessage(op.rows[i])]]>>
       /\ \A c \in Conns :
            (LoadMessages(c, NoUser) /\ username[c] # NoUser)
            => \A i \in HistoriesTo(out', c) :
                  Len(out'[i].messages) = Cardinality(Involving(username[c]))
       /\ \A op \in Calls :
            (CbLoginUser(op) /\ op.res = "ok")
            => \A i \in HistoriesTo(out', op.c) :
                  Len(out'[i].messages) = Cardinality(Involving(op.u))]_vars

\* C22 failing state: in part_000 a bound socket whose user has sent two messages,
\* with every event so far handled before the next arrived and no store call
\* failed, has just been answered by an empty 'chat history' alone: the answer
\* to its 'load messages' without a user
C22_EmptyAnswerToLoad ==
    \E c \in Conns :
        /\ variant = "p0"
        /\ username[c] # NoUser
        /\ out = <<Ev(c, "chat history", "")>>
        /\ Len(messages) = 2 /\ Involving(username[c]) = {1, 2}
        /\ \E k \in {1, 2} : messages[k].sender = username[c] /\ messages[k].receiver = username[c]
        /\ \E k \in {1, 2} : messages[k].sender = username[c] /\ messages[k].receiver # username[c]
        /\ spent = 4 /\ pending = EmptyBag

\* the stored rows that u sent to w or w sent to u
Between(u, w) ==
    {k \in 1..Len(messages) : \/ messages[k].sender = u /\ messages[k].receiver = w
                              \/ messages[k].sender = w /\ messages[k].receiver = u}

\* C23: 'load messages' that names user w, on a socket bound to u, issues one
\* history query of u naming w; the query returns the stored rows between u and
\* w, all of them and no other, in ascending order of timestamp; and its
\* continuation emits one 'chat history' to the socket with those rows in that
\* order, an empty one when there is no such row.
C23_PeerHistoryIsConversation ==
    [][/\ \A c \in Conns, w \in Names :
            (LoadMessages(c, w) /\ username[c] # NoUser)
            => /\ pending' = pending (+) One(HistoryOp(c, username[c], w))
               /\ out' = <<>>
       /\ \A op \in Calls :
            (ExecSelect(op) /\ op.pc = "history" /\ op.u # NoUser /\ op.from # NoUser)
            => \A new \in DOMAIN pending' :
                 Replaced(op, new)
                 => /\ new.res = "ok"
                    /\ ExactlyRows(new.rows, Between(op.from, op.u))
                    /\ Ascending(new.rows)
       /\ \A op \in Calls :
            (CbHistory(op) /\ op.res = "ok" /\ op.u # NoUser /\ op.from # NoUser)
            => /\ Len(out') = 1
               /\ out'[1].ev = "chat history" /\ out'[1].to = op.c
               /\ Len(out'[1].messages) = Len(op.rows)
               /\ \A i \in DOMAIN op.rows :
                    /\ out'[1].messages[i].from = op.rows[i].sender
                    /\ out'[1].messages[i].to = op.rows[i].receiver
                    /\ out'[1].messages[i].msg = op.rows[i].message
                    /\ out'[1].messages[i].timestamp = op.rows[i].timestamp
               /\ op.rows = <<>> => out' = <<Ev(op.c, "chat history", "")>>]_vars

\* C23 witness: src/index.js has just sent a bound socket a 'chat history' that
\* holds the second stored row, a message between its user and another user, and
\* not the first, which its user sent to itself: the answer to a load that
\* named the other user
C23_Witness ==
    \E c \in Conns :
        /\ variant = "index"
        /\ username[c] # NoUser
        /\ Len(messages) = 2
        /\ messages[1].sender = username[c] /\ messages[1].receiver = username[c]
        /\ 2 \in Involving(username[c]) /\ messages[2].sender # messages[2].receiver
        /\ out = <<[Ev(c, "chat history", "") EXCEPT !.messages = <<ToMessage(messages[2])>>]>>

\* C24: once socket.username of a connection is set it never changes, and no
\* step makes the entry in users of another username point at that connection.
C24_BoundUsernameIsFinal ==
    [][\A c \in Conns :
          username[c] # NoUser
          => /\ username'[c] = username[c]
             /\ \A n \in Names \ {username[c]} :
                   (users'[n].defined /\ users'[n].socketId = c) => users'[n] = users[n]]_vars

\* C24 failing state: in part_000 one socket is the handle of both usernames: it
\* logged in as one user and then as the other
C24_ReboundSocket ==
    \E c \in Conns :
        /\ variant = "p0"
        /\ username[c] # NoUser
        /\ \A n \in Names : users[n] = Entry(c)

\* the step ends a 'setup password' handler whose store calls all succeeded, on
\* a socket whose ground to act as the user is that it set the password of a
\* user who had none
SetupEnds(op) ==
    /\ op.res = "ok"
    /\ <<op.c, op.u>> \in grounds
    /\ \/ variant = "index" /\ CbSetupUpdate(op)
       \/ variant = "p0" /\ CbLoginUser(op) /\ op.x = "setup"

\* C25: when a 'setup password' for a user who had no password has run to the
\* end of its handler with every store call succeeding, the socket is logged in
\* as that user: socket.username is the user, users holds the user online on
\* this socket, the stored online flag is set, a roster is emitted or its query
\* issued, and a 'chat history' is emitted to the socket or its query issued.
C25_SetupPasswordLogsIn ==
    [][\A op \in Calls :
          SetupEnds(op)
          => /\ username'[op.c] = op.u
             /\ users'[op.u] = Entry(op.c)
             /\ dbUsers'[op.u].online
             /\ \/ \E i \in Rosters(out') : out'[i].to = All
                \/ CopiesIn(RosterOp, pending') = CopiesIn(RosterOp, pending) + 1
             /\ \/ HistoriesTo(out', op.c) # {}
                \/ CopiesIn(HistoryOp(op.c, op.u, NoUser), pending')
                     = CopiesIn(HistoryOp(op.c, op.u, NoUser), pending) + 1]_vars

\* C25 failing state: the only event so far was a 'setup password' for a user
\* without a password; src/index.js has stored the hash and answered 'password
\* setup successful', no call is in flight, and the socket is unbound, users is
\* empty and the user is stored offline
C25_SetupDoneNotLoggedIn ==
    \E c \in Conns, u \in Names :
        /\ variant = "index"
        /\ spent = 1 /\ pending = EmptyBag
        /\ grounds = {<<c, u>>}
        /\ out = <<Ev(c, "password setup successful", "")>>
        /\ dbUsers[u].password = Hash("p2")
        /\ username[c] = NoUser
        /\ users = [n \in Names |-> Undefined]
        /\ ~dbUsers[u].online

\* C26: a history load of a bound socket is answered by exactly one event to
\* that socket: 'load messages' either answers at once or issues one history
\* query and nothing else, and the continuation of a history query emits one
\* event to the socket that asked, a 'chat history' when the query succeeded.
C26_HistoryLoadAnswered ==
    [][/\ \A c \in Conns, user \in Names \cup {NoUser} :
            (LoadMessages(c, user) /\ username[c] # NoUser)
            => \/ /\ Len(out') = 1 /\ HistoriesTo(out', c) = {1}
                  /\ pending' = pending
               \/ /\ out' = <<>>
                  /\ pending' = pending (+) One(HistoryOp(c, username[c], user))
       /\ \A op \in Calls :
            (CbHistory(op) /\ op.from # NoUser)
            => /\ Len(out') = 1
               /\ out'[1].to = op.c
               /\ op.res = "ok" => out'[1].ev = "chat history"]_vars

\* C26 failing state: the history query that src/index.js issued for a bound and
\* connected socket has failed in the store, and its continuation, which only
\* logs the error, is what remains of the request
C26_FailedHistoryQuery ==
    \E op \in Calls :
        /\ variant = "index"
        /\ op.pc = "history" /\ op.st = "done" /\ op.res = "err"
        /\ op.from # NoUser /\ username[op.c] = op.from /\ connected[op.c]
        /\ pending = One(op)

\* no store call is in flight and no continuation is left to run
Quiescent == pending = EmptyBag

\* C27: in the servers that store users, whenever nothing is in flight, every
\* entry of users for a user who has a row has the online flag of that row.
C27_QuiescentRegistryMatchesStore ==
    (Quiescent /\ variant # "p1c")
    => \A n \in Names :
         (users[n].defined /\ dbUsers[n].present) => users[n].online = dbUsers[n].online

\* C27 failing state: in part_000 two sockets logged in as one user and the first
\* has disconnected; nothing is in flight; users shows the user online on the
\* second socket and the user's row says offline
C27_OnlineInRegistryOnly ==
    \E n \in Names :
        /\ variant = "p0" /\ Quiescent /\ ~crashed
        /\ username["c1"] = n /\ username["c2"] = n
        /\ ~connected["c1"] /\ connected["c2"]
        /\ users[n] = Entry("c2")
        /\ dbUsers[n].present /\ ~dbUsers[n].online

\* the step is a continuation of a login, signup or setup password that reports
\* a failure
FailsAuth(op) ==
    /\ \/ CbLoginSelect(op) \/ CbLoginUpdate(op) \/ CbLoginUser(op)
       \/ CbSetupUpdate(op) \/ CbSignupSelect(op) \/ CbSignupInsert(op)
    /\ \E i \in DOMAIN out' : IsError(out'[i])

\* C28: a step of a login, signup or setup password that reports a failure emits
\* to the socket of that request only, emits no roster and issues no roster
\* query, and changes neither socket.username of another socket nor an entry of
\* users that is registered on another socket.
C28_FailureTouchesOnlyItsSocket ==
    [][\A op \in Calls :
          FailsAuth(op)
          => /\ \A i \in DOMAIN out' : out'[i].to = op.c
             /\ Rosters(out') = {}
             /\ CopiesIn(RosterOp, pending') <= CopiesIn(RosterOp, pending)
             /\ \A c \in Conns \ {op.c} : username'[c] = username[c]
             /\ \A n \in Names :
                  (users[n].defined /\ users[n].socketId # op.c) => users'[n] = users[n]]_vars

\* C28 failing state: in src/index.js, where no socket has a session object, both
\* sockets have sent one login for the same user, the second after the first
\* was over, and no store call failed; the second login has just been answered
\* 'login failed' and the user's entry in users, which was registered on the
\* first socket, is now on the second
C28_FailedLoginTookEntry ==
    \E n \in Names :
        /\ variant = "index"
        /\ session = [c \in Conns |-> "no"]
        /\ spent = 2 /\ pending = EmptyBag
        /\ username["c1"] = n /\ username["c2"] = n
        /\ connected["c1"] /\ connected["c2"]
        /\ out = <<LoginError("c2")>>
        /\ users[n] = Entry("c2")

\* the next step of a store call: the store executes it, or its continuation runs
StepOf(op) ==
    \/ ExecSelect(op) \/ ExecWriteUser(op) \/ ExecInsertMessage(op)
    \/ CbLoginSelect(op) \/ CbLoginUpdate(op) \/ CbLoginUser(op) \/ CbSetupUpdate(op)
    \/ CbSignupSelect(op) \/ CbSignupInsert(op) \/ CbSetUserSelect(op) \/ CbSetUserUpdate(op)
    \/ CbSave(op) \/ CbChatInsert(op) \/ CbHistory(op) \/ CbRoster(op) \/ CbDiscUpdate(op)

\* C29: while a store call is held in the store, the server is running, and
\* every other store call in flight can take its next step.
C29_HungCallStallsOnlyItsRequest ==
    \A h \in Calls :
        h.st = "sent"
        => /\ ~crashed
           /\ \A op \in Calls \ {h} : ENABLED StepOf(op)

\* C29 failing state: the UPDATE of a login of src/index.js is still held in the
\* store, the socket of that login has disconnected, the continuation of the
\* disconnect's UPDATE has thrown, and the other socket, still connected, is
\* served no more
C29_HungLoginThenCrash ==
    \E h \in Calls :
        /\ variant = "index"
        /\ h.pc = "login:update" /\ h.st = "sent"
        /\ ~connected[h.c] /\ username[h.c] = h.u
        /\ crashed
        /\ \E c \in Conns \ {h.c} : connected[c]

\* every socket has disconnected
AllClosed == \A c \in Conns : ~connected[c]

\* C30: when every socket has disconnected and nothing is in flight, users shows
\* no user online and no row has its online flag set.
C30_NobodyOnlineWhenAllClosed ==
    (AllClosed /\ Quiescent /\ ~crashed)
    => \A n \in Names : ~RegistryOnline(n) /\ ~dbUsers[n].online

\* C30 failing state: in part_000 one socket logged in as one user, then as the
\* other, and disconnected, and the other socket disconnected too, each event
\* handled before the next arrived and no store call failed; nothing is in
\* flight, and the first user is online in users and in its row
C30_FirstNameStillOnline ==
    \E c \in Conns, n \in Names :
        /\ variant = "p0"
        /\ AllClosed /\ Quiescent /\ ~crashed
        /\ spent = 4
        /\ username[c] # NoUser /\ username[c] # n
        /\ users[username[c]].defined /\ ~users[username[c]].online
        /\ users[n] = Entry(c)
        /\ dbUsers[n].online

\* the entry of user n is registered on a socket other than c that is still open
HeldByOpenSocket(n, c) ==
    /\ users[n].defined /\ users[n].online
    /\ users[n].socketId \in Conns \ {c}
    /\ connected[users[n].socketId]
    /\ username[users[n].socketId] = n

\* C31: when the user of a disconnected socket is registered on another socket
\* that is still open and bound to that user, the unregister of the disconnected
\* socket leaves users as it is, and the store does not clear the user's online flag.
C31_OldSocketLeavesEntry ==
    [][/\ \A op \in Calls :
            (CbDiscUpdate(op) /\ op.res = "ok" /\ username[op.c] # NoUser
                              /\ HeldByOpenSocket(username[op.c], op.c))
            => users' = users
       /\ \A op \in Calls :
            (ExecWriteUser(op) /\ op.pc = "disc:update" /\ HeldByOpenSocket(op.u, op.c))
            => dbUsers'[op.u].online = dbUsers[op.u].online
       /\ \A c \in Conns :
            (Disconnect(c) /\ variant = "p1c" /\ username[c] # NoUser
                           /\ HeldByOpenSocket(username[c], c))
            => users' = users]_vars

\* C31 failing state: in part_000 both sockets logged in as one user, the second
\* last, and the first has disconnected; the entry still names the second
\* socket, which is open, but is marked offline, and a message to the user has
\* just been echoed to its sender and delivered to nobody
C31_OpenSocketMarkedOffline ==
    \E n \in Names :
        /\ variant = "p0"
        /\ username["c1"] = n /\ username["c2"] = n
        /\ ~connected["c1"] /\ connected["c2"]
        /\ users[n].defined /\ users[n].socketId = "c2" /\ ~users[n].online
        /\ ChatStep /\ Len(out) = 1 /\ TheEcho.peer = n

\* C32: in the first server of part_001 no two open sockets are bound to one
\* username.
C32_SingleSession ==
    variant = "p1a"
    => \A c, d \in Conns :
         (c # d /\ connected[c] /\ connected[d] /\ username[c] # NoUser)
         => username[d] # username[c]

\* C32 failing state: in the first server of part_001 both sockets are open and
\* bound to one user, whose row holds the socket id of one of them; nothing is
\* in flight
C32_TwoSessions ==
    \E n \in Names :
        /\ variant = "p1a"
        /\ Quiescent /\ ~crashed
        /\ connected["c1"] /\ connected["c2"]
        /\ username["c1"] = n /\ username["c2"] = n
        /\ users[n].defined /\ users[n].online
        /\ dbUsers[n].socket_id = users[n].socketId

\* the messages that an event carries: the one of a 'chat message', the list of
\* a 'chat history'
Carried(e) ==
    IF e.ev = "chat message" THEN {[from |-> e.from, to |-> e.peer]}
    ELSE IF e.ev = "chat history"
    THEN {[from |-> e.messages[i].from, to |-> e.messages[i].to] : i \in DOMAIN e.messages}
    ELSE {}

\* C33: every message that an event carries to a socket has the socket's
\* socket.username as its sender or as its receiver.
C33_OnlyOwnMessages ==
    \A i \in DOMAIN out :
        out[i].to \in Conns
        => \A m \in Carried(out[i]) : m.from = username[out[i].to] \/ m.to = username[out[i].to]

\* C33 failing state: in part_000 a message that a user sent to itself has just
\* been delivered to the socket of the other user: that socket logged in as the
\* first user and then as the other, and is still the first user's handle
C33_DeliveredToThirdParty ==
    \E c \in Conns : \E d \in Conns \ {c} :
        /\ variant = "p0"
        /\ username[c] # NoUser /\ username[d] # NoUser /\ username[d] # username[c]
        /\ ChatStep /\ Len(out) = 3
        /\ TheEcho.to = c /\ TheEcho.from = username[c] /\ TheEcho.peer = username[c]
        /\ out[1].ev = "chat message" /\ out[1].to = d
        /\ out[1].from = username[c] /\ out[1].peer = username[c]

\* C34: the INSERT of a signup creates the row when the username has none and
\* is refused, changing no row, when it has one, so of two signups for one new
\* username only the first INSERT that the store executes succeeds; the
\* continuation of a refused INSERT emits 'signup failed' to its socket alone,
\* changes no socket.username and no entry of users, and issues no further
\* call; and a step of a signup binds its socket only when its INSERT succeeded.
C34_OneSignupWins ==
    [][/\ \A op \in Calls :
            (ExecWriteUser(op) /\ op.pc = "signup:insert")
            => \A new \in DOMAIN pending' :
                 Replaced(op, new)
                 => /\ \A n \in Names \ {op.u} : dbUsers'[n] = dbUsers[n]
                    /\ IF dbUsers[op.u].present
                       THEN new.res = "err" /\ dbUsers' = dbUsers
                       ELSE new.res = "ok" /\ dbUsers'[op.u].present
                                           /\ dbUsers'[op.u].password = op.x
       /\ \A op \in Calls :
            (CbSignupInsert(op) /\ op.res = "err")
            => /\ SignupFailed(out', op.c)
               /\ username' = username
               /\ users' = users
               /\ pending' = Finish(op)
       /\ \A op \in Calls :
            ((CbSignupInsert(op) \/ (CbLoginUser(op) /\ op.x = "signup"))
                /\ (username'[op.c] # username[op.c] \/ users' # users))
            => /\ op.res = "ok"
               /\ dbUsers[op.u].present
               /\ username'[op.c] = op.u
               /\ users'[op.u] = Entry(op.c)]_vars

\* C34 witness: the store has executed the INSERTs of two signups that two
\* sockets sent for one username; one created the row and the other was
\* refused, and the socket of the refused one is unbound
C34_Witness ==
    \E a \in Calls, b \in Calls :
        /\ a.pc = "signup:insert" /\ b.pc = "signup:insert"
        /\ a.u = b.u /\ a.c # b.c
        /\ a.st = "done" /\ b.st = "done"
        /\ a.res = "ok" /\ b.res = "err"
        /\ username[b.c] = NoUser
        /\ ~users[b.u].defined
====
